---- MODULE Spec2Model ----
(***************************************************************************)
(* MetalCity/ShaderTypes.h: the header shared between the Metal shaders    *)
(* and the Swift/ObjC sources.                                             *)
(*                                                                         *)
(* The header is compiled twice, once by the host compiler and once by the *)
(* Metal compiler (which predefines __METAL_VERSION__).  Each compilation  *)
(* is modelled as a translation unit that includes the header one or more  *)
(* times; the preprocessor and the declaration processing advance one      *)
(* directive or declaration at a time.  pc[s] is the line of the header    *)
(* about to be processed (0: outside the header, at translation-unit       *)
(* level).                                                                 *)
(***************************************************************************)
EXTENDS Integers, Sequences, FiniteSets, TLC

VARIABLES
    pc,             \* side -> header line about to be processed, 0 outside
    included,       \* side -> number of #include "ShaderTypes.h" processed
    macros,         \* side -> set of macro names defined
    types,          \* side -> set of type names visible
    defCount,       \* side -> [type name -> number of times it was defined]
    backing,        \* side -> width in bits of EnumBackingType, 0 undefined
    enums,          \* side -> [enum name -> sequence of [name, value]]
    uniforms,       \* side -> [fields, size, align] of the Uniforms record
    nsIntegerBits   \* width in bits of NSInteger on the host platform

vars == <<pc, included, macros, types, defCount, backing, enums, uniforms,
          nsIntegerBits>>

\* Largest number of times one translation unit includes the header.
MaxIncludes == 3

Sides == {"host", "metal"}

EnumNames == {"BufferIndex", "VertexAttribute"}

TypeNames == {"EnumBackingType", "BufferIndex", "VertexAttribute", "Uniforms"}

\* The include guard macro (#ifndef ShaderTypes_h / #define ShaderTypes_h).
GuardMacro == "ShaderTypes_h"

\* Macros the compiler of a side predefines.
Predefined(s) == IF s = "metal" THEN {"__METAL_VERSION__"} ELSE {}

\* Types a side knows before any header is read.
Builtin(s) == IF s = "metal" THEN {"float", "metal::int32_t"} ELSE {"float"}

\* NSInteger is a long: 32 bits on ILP32 hosts, 64 bits on LP64 hosts.
NSIntegerWidths == {32, 64}

\* metal::int32_t
MetalBackingBits == 32

(***************************************************************************)
(* Integer conversion to an enum's backing type.                           *)
(***************************************************************************)
RECURSIVE Bits(_)
Bits(v) == IF v = 0 THEN 0 ELSE 1 + Bits(v \div 2)

\* Number of bits a two's-complement representation of v needs.
SignedBits(v) == IF v >= 0 THEN Bits(v) + 1 ELSE Bits(-v - 1) + 1

Representable(v, bits) == SignedBits(v) <= bits

\* Conversion of the initializer v to a signed integer of the given width.
ToBacking(v, bits) ==
    IF Representable(v, bits) THEN v
    ELSE ((v + 2^(bits - 1)) % 2^bits) - 2^(bits - 1)

(***************************************************************************)
(* The declarations of the header, by line.                                *)
(***************************************************************************)
EnumBeginAt == (24 :> "BufferIndex") @@ (30 :> "VertexAttribute")

\* BufferIndexUniforms given the value of BufferIndexVertices.
EnumeratorAt_Dup ==
    (26 :> [enum |-> "BufferIndex",     name |-> "BufferIndexVertices",     value |-> 0]) @@
    (27 :> [enum |-> "BufferIndex",     name |-> "BufferIndexUniforms",     value |-> 0]) @@
    (32 :> [enum |-> "VertexAttribute", name |-> "VertexAttributePosition", value |-> 0]) @@
    (33 :> [enum |-> "VertexAttribute", name |-> "VertexAttributeNormal",   value |-> 1]) @@
    (34 :> [enum |-> "VertexAttribute", name |-> "VertexAttributeColor",    value |-> 2])

\* BufferIndex numbered from 1.
EnumeratorAt_OneBased ==
    (26 :> [enum |-> "BufferIndex",     name |-> "BufferIndexVertices",     value |-> 1]) @@
    (27 :> [enum |-> "BufferIndex",     name |-> "BufferIndexUniforms",     value |-> 2]) @@
    (32 :> [enum |-> "VertexAttribute", name |-> "VertexAttributePosition", value |-> 0]) @@
    (33 :> [enum |-> "VertexAttribute", name |-> "VertexAttributeNormal",   value |-> 1]) @@
    (34 :> [enum |-> "VertexAttribute", name |-> "VertexAttributeColor",    value |-> 2])

\* VertexAttributeNormal and VertexAttributeColor with each other's value.
EnumeratorAt_NormalColor ==
    (26 :> [enum |-> "BufferIndex",     name |-> "BufferIndexVertices",     value |-> 0]) @@
    (27 :> [enum |-> "BufferIndex",     name |-> "BufferIndexUniforms",     value |-> 1]) @@
    (32 :> [enum |-> "VertexAttribute", name |-> "VertexAttributePosition", value |-> 0]) @@
    (33 :> [enum |-> "VertexAttribute", name |-> "VertexAttributeNormal",   value |-> 2]) @@
    (34 :> [enum |-> "VertexAttribute", name |-> "VertexAttributeColor",    value |-> 1])

EnumeratorAt ==
    (26 :> [enum |-> "BufferIndex",     name |-> "BufferIndexVertices",     value |-> 0]) @@
    (27 :> [enum |-> "BufferIndex",     name |-> "BufferIndexUniforms",     value |-> 1]) @@
    (32 :> [enum |-> "VertexAttribute", name |-> "VertexAttributePosition", value |-> 0]) @@
    (33 :> [enum |-> "VertexAttribute", name |-> "VertexAttributeNormal",   value |-> 1]) @@
    (34 :> [enum |-> "VertexAttribute", name |-> "VertexAttributeColor",    value |-> 2])

EnumEndAt == (28 :> "BufferIndex") @@ (35 :> "VertexAttribute")

\* A drift between the two sides: the shader side numbers its slots from 1.
DeclaredValue_PerSide(s, line) ==
    IF s = "metal" THEN EnumeratorAt[line].value + 1 ELSE EnumeratorAt[line].value

\* The initializer side s sees at an enumerator line.  Lines 26-34 lie
\* outside the #ifdef __METAL_VERSION__ ... #endif block of lines 14-20.
DeclaredValue(s, line) == EnumeratorAt[line].value

\* lightDirection and ambientIntensity swapped.
FieldAt_Swapped ==
    (39 :> [name |-> "projectionMatrix", type |-> "matrix_float4x4"]) @@
    (40 :> [name |-> "viewMatrix",       type |-> "matrix_float4x4"]) @@
    (41 :> [name |-> "ambientIntensity", type |-> "float"]) @@
    (42 :> [name |-> "lightDirection",   type |-> "vector_float3"])

FieldAt ==
    (39 :> [name |-> "projectionMatrix", type |-> "matrix_float4x4"]) @@
    (40 :> [name |-> "viewMatrix",       type |-> "matrix_float4x4"]) @@
    (41 :> [name |-> "lightDirection",   type |-> "vector_float3"]) @@
    (42 :> [name |-> "ambientIntensity", type |-> "float"])

\* The line processed after a declaration line inside an enum or the struct.
NextDeclLine(line) ==
    CASE line = 24 -> 26 [] line = 26 -> 27 [] line = 27 -> 28
      [] line = 28 -> 30
      [] line = 30 -> 32 [] line = 32 -> 33 [] line = 33 -> 34 [] line = 34 -> 35
      [] line = 35 -> 37
      [] line = 37 -> 39 [] line = 39 -> 40 [] line = 40 -> 41 [] line = 41 -> 42
      [] line = 42 -> 43
      [] line = 43 -> 45

(***************************************************************************)
(* Sizes and alignments of the field types, as <simd/simd.h> (host) and    *)
(* the Metal standard library (shader) define them, in bytes.              *)
(***************************************************************************)
\* The shader side reading the vector as a packed_float3.
TypeSize_Packed(s, t) ==
    CASE t = "float"           -> 4
      [] t = "vector_float3"   -> IF s = "metal" THEN 12 ELSE 16
      [] t = "matrix_float4x4" -> 64

TypeSize(s, t) ==
    CASE t = "float"           -> 4
      [] t = "vector_float3"   -> 16
      [] t = "matrix_float4x4" -> 64

TypeAlign(s, t) ==
    CASE t = "float"           -> 4
      [] t = "vector_float3"   -> 16
      [] t = "matrix_float4x4" -> 16

\* A packed record: no alignment padding.
AlignUp_None(off, a) == off

\* The least multiple of a that is >= off.
AlignUp(off, a) == ((off + a - 1) \div a) * a

Max(a, b) == IF a >= b THEN a ELSE b

\* The first byte after the last field placed so far.
EndOf(fields) ==
    IF fields = <<>> THEN 0
    ELSE fields[Len(fields)].offset + fields[Len(fields)].size

\* The record u with field f placed after the fields it already has.
PlaceField(s, u, f) ==
    [u EXCEPT !.fields = Append(@, [name   |-> f.name, type |-> f.type,
                                    offset |-> AlignUp(EndOf(u.fields), TypeAlign(s, f.type)),
                                    size   |-> TypeSize(s, f.type)]),
              !.align  = Max(@, TypeAlign(s, f.type))]

\* The record u closed: its size is rounded up to its alignment.
CloseStruct(u) == [u EXCEPT !.size = AlignUp(EndOf(u.fields), u.align)]

EmptyStruct == [fields |-> <<>>, size |-> 0, align |-> 1]

(***************************************************************************)
(* The include guard.                                                      *)
(***************************************************************************)
\* A header without a working guard test.
GuardSkips_Never(ms) == FALSE

\* #ifndef ShaderTypes_h: the body is skipped when the macro is defined.
GuardSkips(ms) == GuardMacro \in ms

\* The #define of line 12 left out.
AfterDefineGuard_Missing(ms) == ms

\* #define ShaderTypes_h
AfterDefineGuard(ms) == ms \cup {GuardMacro}

(***************************************************************************)
(* Initial state: two translation units, nothing included yet.             *)
(***************************************************************************)
Init ==
    /\ pc = [s \in Sides |-> 0]
    /\ included = [s \in Sides |-> 0]
    /\ macros = [s \in Sides |-> Predefined(s)]
    /\ types = [s \in Sides |-> Builtin(s)]
    /\ defCount = [s \in Sides |-> [t \in TypeNames |-> 0]]
    /\ backing = [s \in Sides |-> 0]
    /\ enums = [s \in Sides |-> [e \in EnumNames |-> <<>>]]
    /\ uniforms = [s \in Sides |-> EmptyStruct]
    /\ nsIntegerBits \in NSIntegerWidths

(***************************************************************************)
(* Actions: one per directive or declaration of the header.                *)
(***************************************************************************)
\* #include "ShaderTypes.h" in the translation unit of side s.
Include(s) ==
    /\ pc[s] = 0
    /\ included[s] < MaxIncludes
    /\ included' = [included EXCEPT ![s] = @ + 1]
    /\ pc' = [pc EXCEPT ![s] = 11]
    /\ UNCHANGED <<macros, types, defCount, backing, enums, uniforms, nsIntegerBits>>

\* line 11: #ifndef ShaderTypes_h (skips to after the #endif of line 45)
Ifndef(s) ==
    /\ pc[s] = 11
    /\ pc' = [pc EXCEPT ![s] = IF GuardSkips(macros[s]) THEN 0 ELSE 12]
    /\ UNCHANGED <<included, macros, types, defCount, backing, enums, uniforms,
                   nsIntegerBits>>

\* line 12: #define ShaderTypes_h
DefineGuard(s) ==
    /\ pc[s] = 12
    /\ macros' = [macros EXCEPT ![s] = AfterDefineGuard(@)]
    /\ pc' = [pc EXCEPT ![s] = 14]
    /\ UNCHANGED <<included, types, defCount, backing, enums, uniforms, nsIntegerBits>>

\* line 14: #ifdef __METAL_VERSION__
IfdefMetal(s) ==
    /\ pc[s] = 14
    /\ pc' = [pc EXCEPT ![s] = IF "__METAL_VERSION__" \in macros[s] THEN 15 ELSE 18]
    /\ UNCHANGED <<included, macros, types, defCount, backing, enums, uniforms,
                   nsIntegerBits>>

\* line 15: #define NS_ENUM(_type, _name) ...
DefineNSEnum(s) ==
    /\ pc[s] = 15
    /\ macros' = [macros EXCEPT ![s] = @ \cup {"NS_ENUM"}]
    /\ pc' = [pc EXCEPT ![s] = 16]
    /\ UNCHANGED <<included, types, defCount, backing, enums, uniforms, nsIntegerBits>>

\* line 16: typedef metal::int32_t EnumBackingType;  (then #else ... #endif)
TypedefBackingMetal(s) ==
    /\ pc[s] = 16
    /\ "metal::int32_t" \in types[s]
    /\ backing' = [backing EXCEPT ![s] = MetalBackingBits]
    /\ types' = [types EXCEPT ![s] = @ \cup {"EnumBackingType"}]
    /\ defCount' = [defCount EXCEPT ![s]["EnumBackingType"] = @ + 1]
    /\ pc' = [pc EXCEPT ![s] = 22]
    /\ UNCHANGED <<included, macros, enums, uniforms, nsIntegerBits>>

\* line 18: #import <Foundation/Foundation.h>  (brings NS_ENUM and NSInteger)
ImportFoundation(s) ==
    /\ pc[s] = 18
    /\ macros' = [macros EXCEPT ![s] = @ \cup {"NS_ENUM"}]
    /\ types' = [types EXCEPT ![s] = @ \cup {"NSInteger"}]
    /\ pc' = [pc EXCEPT ![s] = 19]
    /\ UNCHANGED <<included, defCount, backing, enums, uniforms, nsIntegerBits>>

\* line 19: typedef NSInteger EnumBackingType;  (then #endif)
TypedefBackingHost(s) ==
    /\ pc[s] = 19
    /\ "NSInteger" \in types[s]
    /\ backing' = [backing EXCEPT ![s] = nsIntegerBits]
    /\ types' = [types EXCEPT ![s] = @ \cup {"EnumBackingType"}]
    /\ defCount' = [defCount EXCEPT ![s]["EnumBackingType"] = @ + 1]
    /\ pc' = [pc EXCEPT ![s] = 22]
    /\ UNCHANGED <<included, macros, enums, uniforms, nsIntegerBits>>

\* line 22: #include <simd/simd.h>
IncludeSimd(s) ==
    /\ pc[s] = 22
    /\ types' = [types EXCEPT ![s] = @ \cup {"matrix_float4x4", "vector_float3"}]
    /\ pc' = [pc EXCEPT ![s] = 24]
    /\ UNCHANGED <<included, macros, defCount, backing, enums, uniforms, nsIntegerBits>>

\* lines 24-25, 30-31: typedef NS_ENUM(EnumBackingType, <enum>) {
BeginEnum(s) ==
    /\ pc[s] \in DOMAIN EnumBeginAt
    /\ "NS_ENUM" \in macros[s]
    /\ "EnumBackingType" \in types[s]
    /\ enums' = [enums EXCEPT ![s][EnumBeginAt[pc[s]]] = <<>>]
    /\ pc' = [pc EXCEPT ![s] = NextDeclLine(@)]
    /\ UNCHANGED <<included, macros, types, defCount, backing, uniforms, nsIntegerBits>>

\* lines 26, 27, 32, 33, 34: <name> = <value>
Enumerator(s) ==
    /\ pc[s] \in DOMAIN EnumeratorAt
    /\ LET d == EnumeratorAt[pc[s]]
       IN  enums' = [enums EXCEPT ![s][d.enum] =
                        Append(@, [name  |-> d.name,
                                   value |-> ToBacking(DeclaredValue(s, pc[s]), backing[s])])]
    /\ pc' = [pc EXCEPT ![s] = NextDeclLine(@)]
    /\ UNCHANGED <<included, macros, types, defCount, backing, uniforms, nsIntegerBits>>

\* lines 28, 35: };
EndEnum(s) ==
    /\ pc[s] \in DOMAIN EnumEndAt
    /\ types' = [types EXCEPT ![s] = @ \cup {EnumEndAt[pc[s]]}]
    /\ defCount' = [defCount EXCEPT ![s][EnumEndAt[pc[s]]] = @ + 1]
    /\ pc' = [pc EXCEPT ![s] = NextDeclLine(@)]
    /\ UNCHANGED <<included, macros, backing, enums, uniforms, nsIntegerBits>>

\* lines 37-38: typedef struct {
BeginStruct(s) ==
    /\ pc[s] = 37
    /\ uniforms' = [uniforms EXCEPT ![s] = EmptyStruct]
    /\ pc' = [pc EXCEPT ![s] = NextDeclLine(@)]
    /\ UNCHANGED <<included, macros, types, defCount, backing, enums, nsIntegerBits>>

\* lines 39-42: <type> <field>;
Field(s) ==
    /\ pc[s] \in DOMAIN FieldAt
    /\ FieldAt[pc[s]].type \in types[s]
    /\ uniforms' = [uniforms EXCEPT ![s] = PlaceField(s, @, FieldAt[pc[s]])]
    /\ pc' = [pc EXCEPT ![s] = NextDeclLine(@)]
    /\ UNCHANGED <<included, macros, types, defCount, backing, enums, nsIntegerBits>>

\* line 43: } Uniforms;
EndStruct(s) ==
    /\ pc[s] = 43
    /\ uniforms' = [uniforms EXCEPT ![s] = CloseStruct(@)]
    /\ types' = [types EXCEPT ![s] = @ \cup {"Uniforms"}]
    /\ defCount' = [defCount EXCEPT ![s]["Uniforms"] = @ + 1]
    /\ pc' = [pc EXCEPT ![s] = NextDeclLine(@)]
    /\ UNCHANGED <<included, macros, backing, enums, nsIntegerBits>>

\* line 45: #endif /* ShaderTypes_h */
Endif(s) ==
    /\ pc[s] = 45
    /\ pc' = [pc EXCEPT ![s] = 0]
    /\ UNCHANGED <<included, macros, types, defCount, backing, enums, uniforms,
                   nsIntegerBits>>

Next ==
    \/ \E s \in Sides : Include(s)
    \/ \E s \in Sides : Ifndef(s)
    \/ \E s \in Sides : DefineGuard(s)
    \/ \E s \in Sides : IfdefMetal(s)
    \/ \E s \in Sides : DefineNSEnum(s)
    \/ \E s \in Sides : TypedefBackingMetal(s)
    \/ \E s \in Sides : ImportFoundation(s)
    \/ \E s \in Sides : TypedefBackingHost(s)
    \/ \E s \in Sides : IncludeSimd(s)
    \/ \E s \in Sides : BeginEnum(s)
    \/ \E s \in Sides : Enumerator(s)
    \/ \E s \in Sides : EndEnum(s)
    \/ \E s \in Sides : BeginStruct(s)
    \/ \E s \in Sides : Field(s)
    \/ \E s \in Sides : EndStruct(s)
    \/ \E s \in Sides : Endif(s)

Spec == Init /\ [][Next]_vars

(***************************************************************************)
(* Properties.                                                             *)
(***************************************************************************)
\* Type t is defined on side s (its typedef has been closed).
Defined(s, t) == t \in types[s]

AllDefined(s) == \A t \in TypeNames : Defined(s, t)

\* The enumerators of enum e on side s as a set of <<name, value>> pairs.
Members(s, e) == {<<enums[s][e][i].name, enums[s][e][i].value>> : i \in 1..Len(enums[s][e])}

\* The values of enum e on side s, in declaration order.
Values(s, e) == [i \in 1..Len(enums[s][e]) |-> enums[s][e][i].value]

Distinct(seq) == \A i, j \in 1..Len(seq) : i # j => seq[i] # seq[j]

ValueOf(s, e, n) == (CHOOSE m \in Members(s, e) : m[1] = n)[2]

FieldNames(s) == [i \in 1..Len(uniforms[s].fields) |-> uniforms[s].fields[i].name]

FieldTypes(s) == [i \in 1..Len(uniforms[s].fields) |-> uniforms[s].fields[i].type]

OffsetOf(s, n) ==
    uniforms[s].fields[CHOOSE i \in 1..Len(uniforms[s].fields) :
                           uniforms[s].fields[i].name = n].offset

\* Which field each byte of the record belongs to ("pad" for padding).
ByteMap(s) ==
    [b \in 0..(uniforms[s].size - 1) |->
        LET F == uniforms[s].fields
            hit == {i \in 1..Len(F) : F[i].offset <= b /\ b < F[i].offset + F[i].size}
        IN  IF hit = {} THEN "pad" ELSE F[CHOOSE i \in hit : TRUE].name]

\* C1: once BufferIndex is defined (on either side) it is a closed set of
\* exactly two identifiers, BufferIndexVertices = 0 and BufferIndexUniforms = 1,
\* and the two values differ.
C1_BufferIndexClosed ==
    \A s \in Sides : Defined(s, "BufferIndex") =>
        /\ Len(enums[s]["BufferIndex"]) = 2
        /\ Members(s, "BufferIndex") =
               {<<"BufferIndexVertices", 0>>, <<"BufferIndexUniforms", 1>>}
        /\ ValueOf(s, "BufferIndex", "BufferIndexVertices") #
               ValueOf(s, "BufferIndex", "BufferIndexUniforms")

C1_Witness ==
    /\ Defined("host", "BufferIndex")
    /\ pc["host"] = 30
    /\ Len(enums["host"]["BufferIndex"]) = 2

\* C2: once VertexAttribute is defined it has exactly three identifiers,
\* Position = 0, Normal = 1 and Color = 2, pairwise distinct.
C2_VertexAttributeValues ==
    \A s \in Sides : Defined(s, "VertexAttribute") =>
        /\ Len(enums[s]["VertexAttribute"]) = 3
        /\ Members(s, "VertexAttribute") =
               {<<"VertexAttributePosition", 0>>, <<"VertexAttributeNormal", 1>>,
                <<"VertexAttributeColor", 2>>}
        /\ Distinct(Values(s, "VertexAttribute"))

C2_Witness ==
    /\ Defined("metal", "VertexAttribute")
    /\ pc["metal"] = 37
    /\ Len(enums["metal"]["VertexAttribute"]) = 3

\* C3: once Uniforms is defined it has exactly four fields, in the order
\* projection matrix (4x4), view matrix (4x4), light direction (3-vector),
\* ambient intensity (scalar), and each field's offset is strictly greater
\* than the offset of every field declared before it.
C3_UniformsFieldOrder ==
    \A s \in Sides : Defined(s, "Uniforms") =>
        /\ FieldNames(s) =
               <<"projectionMatrix", "viewMatrix", "lightDirection", "ambientIntensity">>
        /\ FieldTypes(s) =
               <<"matrix_float4x4", "matrix_float4x4", "vector_float3", "float">>
        /\ \A i, j \in 1..Len(uniforms[s].fields) :
               i < j => uniforms[s].fields[i].offset < uniforms[s].fields[j].offset

C3_Witness ==
    /\ Defined("host", "Uniforms")
    /\ Len(uniforms["host"].fields) = 4
    /\ pc["host"] = 45

\* C4: with 4-byte floats, 64-byte 16-aligned matrices and a 16-byte
\* 16-aligned 3-float vector, projectionMatrix is at offset 0, viewMatrix at
\* 64, lightDirection at 128 and ambientIntensity at 144 (not 140); no two
\* fields overlap; the record is 160 bytes, a multiple of its 16-byte alignment.
C4_UniformsLayout ==
    \A s \in Sides : Defined(s, "Uniforms") =>
        LET F == uniforms[s].fields
        IN  /\ OffsetOf(s, "projectionMatrix") = 0
            /\ OffsetOf(s, "viewMatrix") = 64
            /\ OffsetOf(s, "lightDirection") = 128
            /\ OffsetOf(s, "ambientIntensity") = 144
            /\ OffsetOf(s, "ambientIntensity") # 140
            /\ \A i, j \in 1..Len(F) :
                   i # j => \/ F[i].offset + F[i].size <= F[j].offset
                            \/ F[j].offset + F[j].size <= F[i].offset
            /\ uniforms[s].size = 160
            /\ uniforms[s].align = 16
            /\ uniforms[s].size % uniforms[s].align = 0

C4_Witness ==
    /\ Defined("metal", "Uniforms")
    /\ uniforms["metal"].size > 0
    /\ Len(uniforms["metal"].fields) = 4

C6_SameValuesBothSides ==
    /\ \A s \in Sides : Defined(s, "EnumBackingType") =>
           /\ backing[s] = IF s = "metal" THEN 32 ELSE nsIntegerBits
           /\ \A l \in DOMAIN EnumeratorAt :
                  /\ Representable(EnumeratorAt[l].value, backing[s])
                  /\ ToBacking(EnumeratorAt[l].value, backing[s]) = EnumeratorAt[l].value
    /\ \A e \in EnumNames :
           (Defined("host", e) /\ Defined("metal", e)) =>
               /\ enums["host"][e] = enums["metal"][e]
               /\ \A i \in 1..Len(enums["host"][e]) :
                      \E l \in DOMAIN EnumeratorAt :
                          /\ EnumeratorAt[l].name = enums["host"][e][i].name
                          /\ EnumeratorAt[l].value = enums["host"][e][i].value

C6_Witness ==
    /\ \A e \in EnumNames : Defined("host", e) /\ Defined("metal", e)
    /\ backing["host"] = 64
    /\ backing["metal"] = 32

\* C7 as stated: BufferIndex has three identifiers whose values equal {0, 1}
\* respectively and are distinct.
C7_ThreeIdentifiers ==
    \A s \in Sides : Defined(s, "BufferIndex") =>
        /\ Len(enums[s]["BufferIndex"]) = 3
        /\ {Values(s, "BufferIndex")[i] : i \in 1..Len(enums[s]["BufferIndex"])} = {0, 1}
        /\ Distinct(Values(s, "BufferIndex"))

\* C7 amended: BufferIndex has two identifiers (not three); their values
\* are 0 and 1 respectively and are distinct.
C7_BothIdentifiers ==
    \A s \in Sides : Defined(s, "BufferIndex") =>
        /\ Cardinality(Members(s, "BufferIndex")) = 2
        /\ Values(s, "BufferIndex") = <<0, 1>>
        /\ Distinct(Values(s, "BufferIndex"))

C7_Witness ==
    /\ Defined("host", "BufferIndex") /\ Defined("metal", "BufferIndex")
    /\ Len(enums["host"]["BufferIndex"]) = 2
    /\ Len(enums["metal"]["BufferIndex"]) = 2

\* C8: no step changes what has been defined: once a side has defined the
\* backing type, an enum or Uniforms, every later step of either
\* translation unit (further declarations, further inclusions) leaves its
\* identifiers' values and the record's field layout as they are.
C8_DefinitionsNeverChange ==
    [][\A s \in Sides :
          /\ Defined(s, "EnumBackingType") => backing'[s] = backing[s]
          /\ \A e \in EnumNames : Defined(s, e) => enums'[s][e] = enums[s][e]
          /\ Defined(s, "Uniforms") => uniforms'[s] = uniforms[s]]_vars

C8_Witness ==
    /\ \A s \in Sides : AllDefined(s) /\ included[s] >= 2 /\ pc[s] = 0

\* The definitions a translation unit holds.
Definitions(s) == <<macros[s], types[s], defCount[s], backing[s], enums[s], uniforms[s]>>

\* C9: inclusion is idempotent.  After one or more inclusions, back at
\* translation-unit level, BufferIndex, VertexAttribute, EnumBackingType and
\* Uniforms are each defined exactly once; and no step of a second or later
\* inclusion changes the definitions the first inclusion left.
C9_IncludeIdempotent ==
    /\ [](\A s \in Sides : (pc[s] = 0 /\ included[s] >= 1) =>
              /\ AllDefined(s)
              /\ \A t \in TypeNames : defCount[s][t] = 1)
    /\ [][\A s \in Sides : included'[s] >= 2 => Definitions(s)' = Definitions(s)]_vars

C9_Witness ==
    \E s \in Sides :
        /\ included[s] >= 2
        /\ pc[s] = 0
        /\ \A t \in TypeNames : defCount[s][t] = 1

====
